---- MODULE Spec2Model ----
(***************************************************************************)
(* Model of examples/GTEx/extract_tile_PW_GTEx.py: the WSI retriever       *)
(* (download_wsi_gtex), the tile extraction loop (extract_random_tiles),   *)
(* the metadata join (split_tiles_patient_wise) and the patient-wise       *)
(* splitter (train_test_df_patient_wise).                                   *)
(*                                                                         *)
(* Strings are sequences of tokens (<<"a", "_", "b">> is "a_b"), so that   *)
(* f-string formatting and str.split are computed, not assumed.            *)
(* A DataFrame is a sequence of rows (records); row order is kept.         *)
(***************************************************************************)
EXTENDS Integers, Sequences, FiniteSets

\* ---------------------------------------------------------------- bounds
\* Rows of a table handed to train_test_df_patient_wise.
MaxRows == 3
\* Rows of the pipeline's metadata table.
MaxMetadataRows == 2
\* n_tiles: the maximum number of tiles the tiler writes per slide.
MaxTiles == 1
\* Length of the sample_ids list handed to download_wsi_gtex.
MaxIds == 3

\* --------------------------------------------------------- input domains
\* Sample ids: plain ones and one that contains the separator "_".
SampleIds == {<<"a">>, <<"b">>, <<"a", "_", "b">>}
\* Sample ids of the pipeline's slides and metadata tables.
PipelineSampleIds == {<<"a">>, <<"a", "_", "b">>}
\* Patient ids in the order pandas sorts them (groupby sorts its keys).
PatientOrder == <<"p1", "p2", "p3">>
PatientIds == {PatientOrder[k] : k \in 1..Len(PatientOrder)}
\* Patients of the pipeline's metadata tables.
PipelinePatients == {"p1", "p2"}
Labels == {"Lung", "Liver"}
\* test_size as a fraction <<numerator, denominator>>: 0.2, 0.5, 0.8.
TestSizes == {<<1, 5>>, <<1, 2>>, <<4, 5>>}
Seeds == {7, 1234}
\* The two runs of the same split that a determinism claim compares.
Runs == {1, 2}
Digits == <<"0", "1", "2", "3", "4", "5", "6", "7", "8", "9">>
\* A missing value of a joined column (pandas NaN).
NaN == <<>>

\* --------------------------------------------------------------- helpers
Range(s) == {s[k] : k \in 1..Len(s)}

\* All sequences over S of length 0..n.
SeqsUpTo(S, n) == UNION {[1..k -> S] : k \in 0..n}

\* All orderings of 1..n (numpy's rng.permutation(n) returns one of them).
IndexPermutations(n) == {p \in [1..n -> 1..n] : \A i, j \in 1..n : i # j => p[i] # p[j]}

\* All orderings of a finite set, as sequences.
RECURSIVE Orderings(_)
Orderings(S) ==
    IF S = {} THEN {<<>>}
    ELSE UNION {{<<x>> \o t : t \in Orderings(S \ {x})} : x \in S}

\* math.ceil(r * n) for a fraction r = <<num, den>>.
Ceil(r, n) == (r[1] * n + r[2] - 1) \div r[2]

\* The elements of s at the positions in K, in the order of s (a boolean-mask
\* selection: pandas .loc[mask], a list comprehension with a filter).
SelectAt(s, K) ==
    LET F[i \in 0..Len(s)] ==
            IF i = 0 THEN <<>>
            ELSE IF i \in K THEN Append(F[i - 1], s[i]) ELSE F[i - 1]
    IN  F[Len(s)]

\* ------------------------------------------------ sklearn train_test_split
\* n_test = ceil(test_size * n_samples) for a float test_size.
NTest(n, r) == Ceil(r, n)
\* n_train = n_samples - n_test when train_size is None.
NTrain(n, r) == n - NTest(n, r)
\* ValueError: "the resulting train set will be empty" (also for n_samples = 0).
ValidateShuffleSplitRaises(n, r) == NTrain(n, r) = 0
\* ShuffleSplit: ind_test = permutation[:n_test].
IndTest(perm, n_test) == SubSeq(perm, 1, n_test)
\* ShuffleSplit: ind_train = permutation[n_test:(n_test + n_train)].
IndTrain(perm, n_test, n_train) == SubSeq(perm, n_test + 1, n_test + n_train)
\* _safe_indexing(a, indices).
SafeIndexing(arr, ind) == [k \in 1..Len(ind) |-> arr[ind[k]]]

\* train_test_split(arr, test_size=r, random_state=seed), perm being the
\* permutation the seeded generator yields for Len(arr).
TrainTestSplit(arr, r, perm) ==
    LET n == Len(arr)
    IN  [train |-> SafeIndexing(arr, IndTrain(perm, NTest(n, r), NTrain(n, r))),
         test  |-> SafeIndexing(arr, IndTest(perm, NTest(n, r)))]

\* The generator state train_test_split starts from: random_state=seed, the
\* same for every call with that seed.
\* Variant: random_state is not passed, every call starts from fresh entropy.
RandomStateFresh(seed, run) == run
RandomStateKey(seed, run) == seed

\* ------------------------------------------- train_test_df_patient_wise
\* A list without its repeated elements, in order of first appearance
\* (Series.unique()).
UniqueList(s) == SelectAt(s, {k \in 1..Len(s) : \A j \in 1..(k - 1) : s[j] # s[k]})

\* The group keys of dataset_df.groupby(patient_col).
PatientKeys(df) == {df[k].patient : k \in 1..Len(df)}
\* dataset_df.groupby(patient_col)[label_col].unique().apply(list): one entry
\* per patient, holding the patient's distinct labels.
PatientWithLabels(df) ==
    [p \in PatientKeys(df) |->
        UniqueList(LET rows == SelectAt(df, {k \in 1..Len(df) : df[k].patient = p})
                   IN  [k \in 1..Len(rows) |-> rows[k].label])]

\* Variant: the patient column as it stands, one entry per row (the split is
\* made over rows, not over patients).
PatientColumn(df) == [k \in 1..Len(df) |-> df[k].patient]
\* patient_with_labels.index.values: the group keys, sorted, each once.
UniquePatients(df) ==
    SelectSeq(PatientOrder, LAMBDA p : p \in PatientKeys(df))

\* Series.isin(values).
Isin(v, values) == \E k \in 1..Len(values) : values[k] = v
\* dataset_df.loc[dataset_df[patient_col].isin(patients)].
Loc(df, patients) == SelectAt(df, {k \in 1..Len(df) : Isin(df[k].patient, patients)})

\* Variant: the mask compares with one patient instead of testing membership.
LocFirstPatientOnly(df, patients) ==
    SelectAt(df, {k \in 1..Len(df) : patients # <<>> /\ df[k].patient = patients[1]})
DatasetTrainDf(df, train_patients) == Loc(df, train_patients)
DatasetTestDf(df, test_patients) == Loc(df, test_patients)

\* train_test_split raises, and so does train_test_df_patient_wise.
TrainTestDfPatientWiseRaises(df, r) ==
    ValidateShuffleSplitRaises(Len(UniquePatients(df)), r)

\* The pair train_test_df_patient_wise returns (with the patient groups kept
\* for inspection).
SelectPartitions(df, split) ==
    [train_patients |-> split.train,
     test_patients  |-> split.test,
     train |-> DatasetTrainDf(df, split.train),
     test  |-> DatasetTestDf(df, split.test)]
TrainTestDfPatientWise(df, r, perm) ==
    SelectPartitions(df, TrainTestSplit(UniquePatients(df), r, perm))

\* ------------------------------------------------------------ file names
Extensions == {".svs", ".png", ".jpg"}
\* f"{sample_id}.svs"
SvsName(sample_id) == sample_id \o <<".svs">>
\* os.path.splitext(f)[1]
SplitextExt(f) == IF f # <<>> /\ f[Len(f)] \in Extensions THEN f[Len(f)] ELSE ""
\* Slide.name: the base name of the slide file without its extension.
SlideName(f) == IF SplitextExt(f) = "" THEN f ELSE SubSeq(f, 1, Len(f) - 1)
\* prefix = f"{slide.name}_"
Prefix(slide_name) == slide_name \o <<"_">>
\* The name the tiler gives tile number j of a slide: prefix, index, ".png".
TileFilename(prefix, j) == prefix \o <<Digits[j + 1], ".png">>
\* RandomTiler.extract(slide) accepting k tiles: the files it writes.
TilesWritten(prefix, k) == {TileFilename(prefix, j) : j \in 0..(k - 1)}
\* f.split("_")[0]: the part of f before the first "_", all of f without one.
SplitFirst(f) ==
    LET seps == {k \in 1..Len(f) : f[k] = "_"}
    IN  IF seps = {} THEN f
        ELSE SubSeq(f, 1, (CHOOSE k \in seps : \A j \in seps : k <= j) - 1)

\* ------------------------------------------------ split_tiles_patient_wise
\* [f for f in os.listdir(tiles_dir) if os.path.splitext(f)[1] == ".png"]
TilesFilenames(listing) ==
    SelectAt(listing, {k \in 1..Len(listing) : SplitextExt(listing[k]) = ".png"})

JoinedRow(m, tile) ==
    [index |-> m.index, sample |-> m.sample, patient |-> m.patient,
     label |-> m.label, tile_filename |-> tile]

\* metadata_df.join(tiles_filenames_df.set_index("Tissue Sample ID"),
\* on="Tissue Sample ID"): a left join on the metadata rows. Each metadata row
\* comes once per tile whose derived sample id equals its sample id, and once
\* with a missing tile_filename when there is none.
JoinMatches(m, tiles_filenames) ==
    SelectAt(tiles_filenames,
             {k \in 1..Len(tiles_filenames) : SplitFirst(tiles_filenames[k]) = m.sample})
JoinRows(m, matches) ==
    IF matches = <<>> THEN <<JoinedRow(m, NaN)>>
    ELSE [k \in 1..Len(matches) |-> JoinedRow(m, matches[k])]
TilesMetadata(metadata, tiles_filenames) ==
    LET RowsOf(m) == JoinRows(m, JoinMatches(m, tiles_filenames))
        F[i \in 0..Len(metadata)] ==
            IF i = 0 THEN <<>> ELSE F[i - 1] \o RowsOf(metadata[i])
    IN  F[Len(metadata)]

\* DataFrame.to_csv(path, index=None): the rows without the index.
ToCsv(df) ==
    [k \in 1..Len(df) |->
        [sample |-> df[k].sample, patient |-> df[k].patient,
         label |-> df[k].label, tile_filename |-> df[k].tile_filename]]

\* What split_tiles_patient_wise reports about tiles without a metadata row:
\* it prints, logs, raises and returns nothing about them.
ReportedInconsistencies == {}

\* -------------------------------------------------------- download_wsi_gtex
\* time.sleep(np.random.randint(60, 100)): low inclusive, high exclusive.
SleepLow == 60
SleepHigh == 100
\* Variant: np.random.randint(100), the lower end left out.
RandintLowDropped == 0..(SleepHigh - 1)
SleepDurations == SleepLow..(SleepHigh - 1)
\* f"{sample_id}.svs" in os.listdir(dataset_dir)
\* Variant: the listing is searched for the bare id, without ".svs".
NeverPresent(dir, sample_id) == sample_id \in DOMAIN dir
IsPresent(dir, sample_id) == SvsName(sample_id) \in DOMAIN dir
\* What a file can hold: a readable slide, or bytes that do not open as one
\* (an empty or invalid response body written as it came).
Contents == {"wsi", "corrupt"}

\* main(): test_size=0.2, seed=1234
MainTestSize == <<1, 5>>
MainSeed == 1234

\* ------------------------------------------------------------------ state
VARIABLES
    \* download_wsi_gtex
    sample_ids,        \* the list of sample ids to retrieve
    dataset_dir,       \* the WSI directory: file name -> what the file holds
    next_id,           \* position of the for loop in sample_ids
    requests,          \* the sample ids requested from the remote, in order
    waited,            \* time slept since the most recent request
    pc_download,       \* "idle", "loop", "done", "raised"
    \* train_test_df_patient_wise
    dataset_df,        \* the table to split
    test_size,         \* test fraction, <<numerator, denominator>>
    seed,              \* random_state
    pc_split,          \* "idle", "call", "returned", "raised"
    dataset_train_df,  \* returned training table
    dataset_test_df,   \* returned test table
    rng_draws,         \* the permutations the generator has produced so far
    \* extract_random_tiles and split_tiles_patient_wise
    metadata_df,       \* the metadata table
    slides_done,       \* slide files the extraction loop has gone through
    tiles_dir,         \* the files of <processed_path>/tiles
    pc_tiles,          \* "idle", "extract", "extracted", "raised"
    train_csv,         \* rows of the training CSV
    test_csv,          \* rows of the test CSV
    run_log            \* per run of split_tiles_patient_wise: the directory
                       \* listing it got and the patient groups it made

downloadVars == <<sample_ids, next_id, requests, waited, pc_download>>
splitVars == <<dataset_df, pc_split, dataset_train_df, dataset_test_df>>
tilesVars == <<metadata_df, slides_done, tiles_dir, pc_tiles, train_csv, test_csv, run_log>>
vars == <<downloadVars, dataset_dir, splitVars, test_size, seed, rng_draws, tilesVars>>

\* The parts of the program a specification does not run.
IdleDownload ==
    /\ sample_ids = <<>>
    /\ next_id = 1
    /\ requests = <<>>
    /\ waited = 0
    /\ pc_download = "idle"
IdleSplit ==
    /\ dataset_df = <<>>
    /\ pc_split = "idle"
    /\ dataset_train_df = <<>>
    /\ dataset_test_df = <<>>
IdleTiles ==
    /\ metadata_df = <<>>
    /\ slides_done = {}
    /\ tiles_dir = {}
    /\ pc_tiles = "idle"
    /\ train_csv = <<>>
    /\ test_csv = <<>>
    /\ run_log = <<>>

\* Directories holding files for some of the sample ids in Ids.
Directories(Ids) ==
    UNION {[{SvsName(id) : id \in S} -> Contents] : S \in SUBSET Ids}

\* ------------------------------------------------- the generator's draws
\* rng.permutation(n) of a generator started from state `key` is a function
\* of key and n: a draw made before is repeated, a new one is any ordering.
DrawPermutation(key, n, perm) ==
    /\ perm \in IndexPermutations(n)
    /\ \A d \in rng_draws : (d.key = key /\ d.n = n) => d.perm = perm
    /\ rng_draws' = rng_draws \cup {[key |-> key, n |-> n, perm |-> perm]}

\* ------------------------------------------------------ download_wsi_gtex
InitDownload ==
    /\ sample_ids \in SeqsUpTo(SampleIds, MaxIds)
    /\ dataset_dir \in Directories(SampleIds)
    /\ next_id = 1
    /\ requests = <<>>
    /\ waited = 0
    /\ pc_download = "loop"
    /\ IdleSplit /\ IdleTiles
    /\ test_size = MainTestSize /\ seed = MainSeed /\ rng_draws = {}

\* download_wsi_gtex touches nothing but the WSI directory and the remote.
DownloadFrame == UNCHANGED <<splitVars, test_size, seed, rng_draws, tilesVars>>

\* One iteration whose file is already listed: nothing is done.
DownloadSkip ==
    /\ pc_download = "loop"
    /\ next_id <= Len(sample_ids)
    /\ IsPresent(dataset_dir, sample_ids[next_id])
    /\ next_id' = next_id + 1
    /\ UNCHANGED <<sample_ids, requests, waited, pc_download, dataset_dir>>
    /\ DownloadFrame

\* One iteration that fetches: requests.get, write r.content, time.sleep.
DownloadFetch ==
    /\ pc_download = "loop"
    /\ next_id <= Len(sample_ids)
    /\ ~IsPresent(dataset_dir, sample_ids[next_id])
    /\ \E content \in Contents, d \in SleepDurations :
        /\ requests' = Append(requests, sample_ids[next_id])
        /\ dataset_dir' =
              [f \in DOMAIN dataset_dir \cup {SvsName(sample_ids[next_id])} |->
                  IF f = SvsName(sample_ids[next_id]) THEN content ELSE dataset_dir[f]]
        /\ waited' = d
    /\ next_id' = next_id + 1
    /\ UNCHANGED <<sample_ids, pc_download>>
    /\ DownloadFrame

\* requests.get raises (a transport error): nothing catches it, the run ends
\* before the file is opened and before the sleep.
DownloadFetchRaises ==
    /\ pc_download = "loop"
    /\ next_id <= Len(sample_ids)
    /\ ~IsPresent(dataset_dir, sample_ids[next_id])
    /\ requests' = Append(requests, sample_ids[next_id])
    /\ pc_download' = "raised"
    /\ UNCHANGED <<sample_ids, next_id, waited, dataset_dir>>
    /\ DownloadFrame

\* The for loop is exhausted.
DownloadReturn ==
    /\ pc_download = "loop"
    /\ next_id > Len(sample_ids)
    /\ pc_download' = "done"
    /\ UNCHANGED <<sample_ids, next_id, requests, waited, dataset_dir>>
    /\ DownloadFrame

NextDownload ==
    \/ DownloadSkip
    \/ DownloadFetch
    \/ DownloadFetchRaises
    \/ DownloadReturn

SpecDownload == InitDownload /\ [][NextDownload]_vars

\* ---------------------------------------------- train_test_df_patient_wise
\* Tables of up to MaxRows rows with a RangeIndex.
SplitTables ==
    UNION {{[k \in 1..n |-> [index |-> k, patient |-> c[k][1], label |-> c[k][2]]] :
              c \in [1..n -> PatientIds \X Labels]} : n \in 0..MaxRows}

InitSplit ==
    /\ dataset_df \in SplitTables
    /\ test_size \in TestSizes
    /\ seed \in Seeds
    /\ pc_split = "call"
    /\ dataset_train_df = <<>>
    /\ dataset_test_df = <<>>
    /\ rng_draws = {}
    /\ IdleDownload /\ IdleTiles
    /\ dataset_dir = <<>>

TrainTestDfPatientWiseReturns ==
    /\ pc_split = "call"
    /\ ~TrainTestDfPatientWiseRaises(dataset_df, test_size)
    /\ \E perm \in IndexPermutations(Len(UniquePatients(dataset_df))) :
        /\ DrawPermutation(RandomStateKey(seed, 1), Len(UniquePatients(dataset_df)), perm)
        /\ \E out \in {TrainTestDfPatientWise(dataset_df, test_size, perm)} :
            /\ dataset_train_df' = out.train
            /\ dataset_test_df' = out.test
    /\ pc_split' = "returned"
    /\ UNCHANGED <<dataset_df, test_size, seed>>
    /\ UNCHANGED <<downloadVars, dataset_dir, tilesVars>>

\* train_test_split raises ValueError and nothing catches it.
TrainTestDfPatientWiseFails ==
    /\ pc_split = "call"
    /\ TrainTestDfPatientWiseRaises(dataset_df, test_size)
    /\ pc_split' = "raised"
    /\ UNCHANGED <<dataset_df, dataset_train_df, dataset_test_df, rng_draws>>
    /\ UNCHANGED <<test_size, seed, downloadVars, dataset_dir, tilesVars>>

NextSplit ==
    \/ TrainTestDfPatientWiseReturns
    \/ TrainTestDfPatientWiseFails

SpecSplit == InitSplit /\ [][NextSplit]_vars

\* ------------------------------------------------------ extract_random_tiles
\* The "Tissue" label of a sample: a property of the specimen.
TissueOf(sample) == IF sample = <<"a">> THEN "Lung" ELSE "Liver"

\* Metadata tables of up to MaxMetadataRows rows with a RangeIndex.
MetadataTables ==
    UNION {{[k \in 1..n |-> [index |-> k, sample |-> c[k][1], patient |-> c[k][2],
                             label |-> TissueOf(c[k][1])]] :
              c \in [1..n -> PipelineSampleIds \X PipelinePatients]} : n \in 0..MaxMetadataRows}

Init ==
    /\ metadata_df \in MetadataTables
    /\ dataset_dir \in Directories(PipelineSampleIds)
    /\ slides_done = {}
    /\ tiles_dir = {}
    /\ pc_tiles = "extract"
    /\ train_csv = <<>>
    /\ test_csv = <<>>
    /\ run_log = <<>>
    /\ test_size = MainTestSize
    /\ seed = MainSeed
    /\ rng_draws = {}
    /\ IdleDownload /\ IdleSplit

\* SlideSet(dataset_dir, processed_path, valid_extensions=[".svs"]).slides
Slides == {f \in DOMAIN dataset_dir : SplitextExt(f) = ".svs"}

TilesFrame == UNCHANGED <<downloadVars, dataset_dir, splitVars, test_size, seed>>

\* One iteration of the loop over slideset.slides, for a slide that opens:
\* the tiler writes the tiles it accepts (at most n_tiles) under the prefix.
ExtractSlide ==
    /\ pc_tiles = "extract"
    /\ \E f \in Slides \ slides_done :
        /\ dataset_dir[f] = "wsi"
        /\ \E k \in 0..MaxTiles :
              tiles_dir' = tiles_dir \cup TilesWritten(Prefix(SlideName(f)), k)
        /\ slides_done' = slides_done \cup {f}
    /\ UNCHANGED <<metadata_df, pc_tiles, train_csv, test_csv, run_log, rng_draws>>
    /\ TilesFrame

\* One iteration for a slide that does not open: extract() raises, the loop
\* has no handler, and extract_random_tiles ends with the exception.
ExtractSlideRaises ==
    /\ pc_tiles = "extract"
    /\ \E f \in Slides \ slides_done : dataset_dir[f] = "corrupt"
    /\ pc_tiles' = "raised"
    /\ UNCHANGED <<metadata_df, slides_done, tiles_dir, train_csv, test_csv, run_log,
                   rng_draws>>
    /\ TilesFrame

\* The loop is exhausted.
ExtractReturn ==
    /\ pc_tiles = "extract"
    /\ Slides \ slides_done = {}
    /\ pc_tiles' = "extracted"
    /\ UNCHANGED <<metadata_df, slides_done, tiles_dir, train_csv, test_csv, run_log,
                   rng_draws>>
    /\ TilesFrame

\* ------------------------------------------------ split_tiles_patient_wise
\* A run of split_tiles_patient_wise that writes both CSV files. os.listdir
\* returns the directory's files in any order.
SplitTilesPatientWise ==
    /\ pc_tiles = "extracted"
    /\ Len(run_log) < Cardinality(Runs)
    /\ \E listing \in Orderings(tiles_dir) :
       \E tiles_metadata \in {TilesMetadata(metadata_df, TilesFilenames(listing))} :
       \E n \in {Len(UniquePatients(tiles_metadata))} :
        /\ ~TrainTestDfPatientWiseRaises(tiles_metadata, test_size)
        /\ \E perm \in IndexPermutations(n) :
           \E out \in {TrainTestDfPatientWise(tiles_metadata, test_size, perm)} :
            /\ DrawPermutation(RandomStateKey(seed, Len(run_log) + 1), n, perm)
            /\ train_csv' = ToCsv(out.train)
            /\ test_csv' = ToCsv(out.test)
            /\ run_log' = Append(run_log,
                                 [raised |-> FALSE, listing |-> listing,
                                  train_patients |-> Range(out.train_patients),
                                  test_patients |-> Range(out.test_patients)])
    /\ UNCHANGED <<metadata_df, slides_done, tiles_dir, pc_tiles>>
    /\ TilesFrame

\* A run in which train_test_df_patient_wise raises: no file is written.
SplitTilesPatientWiseRaises ==
    /\ pc_tiles = "extracted"
    /\ Len(run_log) < Cardinality(Runs)
    /\ \E listing \in Orderings(tiles_dir) :
        /\ TrainTestDfPatientWiseRaises(
               TilesMetadata(metadata_df, TilesFilenames(listing)), test_size)
        /\ run_log' = Append(run_log,
                             [raised |-> TRUE, listing |-> listing,
                              train_patients |-> {}, test_patients |-> {}])
    /\ UNCHANGED <<metadata_df, slides_done, tiles_dir, pc_tiles, train_csv, test_csv,
                   rng_draws>>
    /\ TilesFrame

Next ==
    \/ ExtractSlide
    \/ ExtractSlideRaises
    \/ ExtractReturn
    \/ SplitTilesPatientWise
    \/ SplitTilesPatientWiseRaises

Spec == Init /\ [][Next]_vars

\* ----------------------------------------------------------------- claims
Count(seq, x) == Cardinality({k \in 1..Len(seq) : seq[k] = x})
SplitReturned == run_log # <<>> /\ ~run_log[Len(run_log)].raised
CsvRows == Range(train_csv) \cup Range(test_csv)

\* C1: whenever train_test_df_patient_wise returns, no patient id occurs in
\* both returned tables: all rows of a patient are in the same table.
C1_PatientsDisjoint ==
    pc_split = "returned" =>
        /\ {dataset_train_df[k].patient : k \in 1..Len(dataset_train_df)}
              \cap {dataset_test_df[k].patient : k \in 1..Len(dataset_test_df)} = {}
        /\ \A i, j \in 1..Len(dataset_df) :
              dataset_df[i].patient = dataset_df[j].patient =>
                  /\ Count(dataset_train_df, dataset_df[i]) = Count(dataset_train_df, dataset_df[j])
                  /\ Count(dataset_test_df, dataset_df[i]) = Count(dataset_test_df, dataset_df[j])

\* C1 witness: a returned split of a table in which one patient has several
\* rows and both tables are non-empty.
C1_Witness ==
    /\ pc_split = "returned"
    /\ dataset_train_df # <<>>
    /\ dataset_test_df # <<>>
    /\ \E i, j \in 1..Len(dataset_df) :
          i # j /\ dataset_df[i].patient = dataset_df[j].patient

\* C2: whenever train_test_df_patient_wise returns, every input row is in
\* exactly one of the two returned tables, once, and nothing else is in them.
C2_RowsCoveredOnce ==
    pc_split = "returned" =>
        /\ \A k \in 1..Len(dataset_df) :
              Count(dataset_train_df, dataset_df[k]) + Count(dataset_test_df, dataset_df[k]) = 1
        /\ Range(dataset_train_df) \cup Range(dataset_test_df) \subseteq Range(dataset_df)

\* C2 witness: a returned split of a three-row table over three patients.
C2_Witness ==
    /\ pc_split = "returned"
    /\ Len(dataset_df) >= 3
    /\ Len(dataset_train_df) >= 2
    /\ Len(dataset_test_df) >= 1

\* C3: after split_tiles_patient_wise has written its files, every .png tile
\* whose derived sample id has no metadata row has been reported.
C3_MismatchReported ==
    SplitReturned =>
        \A f \in tiles_dir :
            (/\ SplitextExt(f) = ".png"
             /\ \A k \in 1..Len(metadata_df) : metadata_df[k].sample # SplitFirst(f))
            => f \in ReportedInconsistencies

\* C4: every row of the written train and test tables names a tile file of
\* the tiles directory.
C4_EveryRowIsATile ==
    SplitReturned => \A row \in CsvRows : row.tile_filename \in tiles_dir

\* C5: when extract_random_tiles ends, every slide that opens has been
\* processed, whatever the other slides of the directory are.
C5_BadSlideIsolated ==
    pc_tiles \in {"extracted", "raised"} =>
        \A f \in Slides : dataset_dir[f] = "wsi" => f \in slides_done

\* C6: two runs of split_tiles_patient_wise over the same tiles and metadata
\* with the same seed and test_size end the same way and put every patient on
\* the same side, whatever order the directory was listed in.
C6_SameAssignment ==
    \A i, j \in 1..Len(run_log) :
        /\ run_log[i].raised = run_log[j].raised
        /\ run_log[i].train_patients = run_log[j].train_patients
        /\ run_log[i].test_patients = run_log[j].test_patients

\* C6 witness: two returned runs that listed the directory in different orders.
C6_Witness ==
    /\ Len(run_log) = 2
    /\ ~run_log[1].raised
    /\ run_log[1].listing # run_log[2].listing
    /\ run_log[2].train_patients # {}
    /\ run_log[2].test_patients # {}

\* C7: for a table with at least one patient train_test_df_patient_wise never
\* raises.
C7_NeverRaises ==
    Len(dataset_df) >= 1 => pc_split # "raised"

\* C8: an iteration of download_wsi_gtex whose file is already in the
\* directory issues no request and leaves the directory as it is.
C8_SkipExisting ==
    [][(/\ pc_download = "loop"
        /\ next_id <= Len(sample_ids)
        /\ (sample_ids[next_id] \o <<".svs">>) \in DOMAIN dataset_dir)
       => (requests' = requests /\ dataset_dir' = dataset_dir)]_vars

\* C8 witness: a finished run that fetched an id and skipped its repetition.
C8_Witness ==
    /\ pc_download = "done"
    /\ Len(requests) < Len(sample_ids)
    /\ \E i, j \in 1..Len(sample_ids) :
          i < j /\ sample_ids[i] = sample_ids[j] /\ sample_ids[i] \in Range(requests)

\* C9: a request that follows another request comes after a wait of 60 to
\* 100 time units, and an iteration whose file is present waits for nothing.
C9_WaitBetweenFetches ==
    [][/\ (requests' # requests /\ requests # <<>>) => waited \in 60..100
       /\ (/\ pc_download = "loop"
           /\ next_id <= Len(sample_ids)
           /\ (sample_ids[next_id] \o <<".svs">>) \in DOMAIN dataset_dir)
          => waited' = waited]_vars

\* C9 witness: a finished run with two fetches and a skipped id.
C9_Witness ==
    /\ pc_download = "done"
    /\ Len(requests) = 2
    /\ Len(sample_ids) = 3
    /\ waited \in 60..100

\* C10: every tile written for a slide has the slide's name before its first
\* "_", and a written table joins it to rows of that sample only.
C10_PrefixRecoversSlide ==
    \A f \in slides_done : \A j \in 0..(MaxTiles - 1) :
        LET t == TileFilename(Prefix(SlideName(f)), j)
        IN  t \in tiles_dir =>
                /\ SplitFirst(t) = SlideName(f)
                /\ SplitReturned =>
                      \A row \in CsvRows :
                          row.tile_filename = t => row.sample = SlideName(f)

====
